---- MODULE Spec2Model ----
(***************************************************************************)
(* A model of src/src/langchain-mcp-tools.ts: convertMcpToLangchainTools   *)
(* (the fleet initializer), convertSingleMcpToLangchainTools (one          *)
(* connector), the composite cleanup and a tool's func.                    *)
(*                                                                         *)
(* JavaScript runs the code on one thread: a step of the model is the code *)
(* that runs between two awaits.  The external operations (the transport   *)
(* and client constructors, connect, request, close) are the environment:  *)
(* each settles with an outcome drawn from a small set.                    *)
(***************************************************************************)
EXTENDS Integers, Sequences, FiniteSets, TLC

(***************************************************************************)
(* Bounds of the model.                                                    *)
(***************************************************************************)
MaxServers == 2
MaxTools == 2
MaxContent == 3
MaxLogCalls == 2
MaxCleanupCalls == 2

(***************************************************************************)
(* Input domains.                                                          *)
(***************************************************************************)
\* Distinct configuration keys; a configuration uses a prefix of them.
ServerNamePool == [i \in 1..(MaxServers + 1) |-> "server" \o ToString(i)]

\* A thrown value: an Error object with a message, or a value that is no Error.
ErrorObject(msg) == [name |-> "Error", message |-> msg]
NonError(str) == [name |-> "string", message |-> str]
NoError == [name |-> "none", message |-> ""]

InitCauses == {ErrorObject("Connection failed"), NonError("boom")}
CloseErrors == {ErrorObject("Cleanup failed")}
SchemaErrors == {ErrorObject("Invalid schema")}
CallErrors == {ErrorObject("Tool execution failed"), NonError("call boom")}

\* The tool descriptors a backend may declare: a catalogue of tools with
\* distinct names, every second one without a description.  A backend declares
\* the first k tools of the catalogue, in either order.
NoDescription == [defined |-> FALSE, text |-> ""]
Description(str) == [defined |-> TRUE, text |-> str]
ToolCatalogue ==
    [k \in 1..MaxTools |->
        [name |-> "tool" \o ToString(k),
         description |-> IF k % 2 = 1 THEN Description("Tool " \o ToString(k))
                         ELSE NoDescription]]

Reverse(seq) == [k \in 1..Len(seq) |-> seq[Len(seq) + 1 - k]]

SeqsUpTo(S, n) == UNION {[1..k -> S] : k \in 0..n}

DeclaredLists ==
    {SubSeq(ToolCatalogue, 1, k) : k \in 0..MaxTools}
    \cup {Reverse(SubSeq(ToolCatalogue, 1, k)) : k \in 0..MaxTools}

\* The content items a backend may answer a tools/call request with (their texts
\* hold no character that JSON escapes), and the arguments a caller may pass.
ContentItems ==
    { [type |-> "text", text |-> "text content"],
      [type |-> "other", text |-> "should be filtered"],
      [type |-> "text", text |-> "more text"] }
Contents == SeqsUpTo(ContentItems, MaxContent)
Inputs == {"{}", "{\"input\":\"test\"}"}

\* Environments: a mapping from the keys that are present to strings.
EnvKeys == {"PATH", "TEST_VAR"}
EnvValues == {"", "test-value", "/cfg/bin"}
EmptyEnv == [k \in {} |-> ""]
Envs == UNION {[K -> EnvValues] : K \in SUBSET EnvKeys}
NoConfigEnv == [defined |-> FALSE, vars |-> EmptyEnv]
ConfigEnv(e) == [defined |-> TRUE, vars |-> e]
AllConfigEnvs == {NoConfigEnv} \cup {ConfigEnv(e) : e \in Envs}

\* process.env.PATH: absent, empty or set.
NoProcessPath == [defined |-> FALSE, value |-> ""]
ProcessPath(str) == [defined |-> TRUE, value |-> str]
AllProcessPaths == {NoProcessPath, ProcessPath(""), ProcessPath("/usr/bin")}

VARIABLES
    configs,        \* the McpServersConfig: entries <<name, config>> in key order
    processPath,    \* process.env.PATH
    started,        \* how many entries the map callback has been called for
    conn,           \* per entry: the state of convertSingleMcpToLangchainTools
    settleOrder,    \* indices of the connectors in the order their promises settled
    fleet,          \* the state of convertMcpToLangchainTools
    cleanupRun,     \* the state of one call of the composite cleanup
    errorLog,       \* the logger.error calls made, in order
    call,           \* the state of one invocation of a tool's func
    logger          \* a Logger: its minimum level and the calls made on it

vars == <<configs, processPath, started, conn, settleOrder, fleet, cleanupRun,
          errorLog, call, logger>>

N == Len(configs)
Servers == 1..N

\* Object.keys(configs)
serverNames == [i \in 1..N |-> configs[i].name]

(***************************************************************************)
(* convertSingleMcpToLangchainTools: pure parts.                           *)
(***************************************************************************)
\* { ...config.env }
SpreadEnv(configEnv) == IF configEnv.defined THEN configEnv.vars ELSE EmptyEnv

\* !env.PATH
PathIsFalsy(env) == "PATH" \notin DOMAIN env \/ env["PATH"] = ""

\* process.env.PATH || ''
ProcessPathOrEmpty(procPath) ==
    IF procPath.defined /\ procPath.value # "" THEN procPath.value ELSE ""

\* const env = { ...config.env }; if (!env.PATH) env.PATH = process.env.PATH || ''
EffectiveEnv(configEnv, procPath) ==
    LET env == SpreadEnv(configEnv)
    IN  IF PathIsFalsy(env)
        THEN [k \in (DOMAIN env) \cup {"PATH"} |->
                IF k = "PATH" THEN ProcessPathOrEmpty(procPath) ELSE env[k]]
        ELSE env

\* new McpInitializationError(serverName, message, details)
McpInitializationError(name, msg, cause) ==
    [name |-> "McpInitializationError", serverName |-> name, message |-> msg,
     details |-> cause]

\* `Failed to initialize MCP server: ${error instanceof Error ? error.message : String(error)}`
InitErrorMessage(error) == "Failed to initialize MCP server: " \o error.message

\* A faulty variant of WrapTool: the description is copied as the backend gave
\* it, undefined when it is omitted.
WrapToolVerbatim(i, d) ==
    [name |-> d.name, description |-> d.description, server |-> i]

\* toolsResponse.tools.map(tool => new DynamicStructuredTool({...})); the func of
\* each tool closes over the client of connector i.  The description is
\* tool.description || '': a string in every case.
WrapTool(i, d) ==
    [name |-> d.name,
     description |-> IF d.description.defined /\ d.description.text # ""
                     THEN d.description ELSE Description(""),
     server |-> i]

WrapTools(i, declared) == [k \in 1..Len(declared) |-> WrapTool(i, declared[k])]

\* The identity of no object: let transport = null, let client = null.
NullObject == 0

\* A faulty variant of NewObject: one object at module level serves every call.
NewObjectShared(existing) == NullObject + 1

\* new StdioClientTransport(...), new Client(...): an object that is none of
\* the objects constructed before.
NewObject(existing) == NullObject + Cardinality(existing \ {NullObject}) + 1

\* A connector before the map callback has been called for it.
IdleConnector ==
    [pc |-> "idle", transport |-> "null", client |-> "null", env |-> EmptyEnv,
     transportId |-> NullObject, clientId |-> NullObject,
     connectCalls |-> 0, listCalls |-> 0, closeCalls |-> 0, closeSettled |-> 0,
     cause |-> NoError, closeError |-> NoError, declared |-> <<>>, tools |-> <<>>,
     reason |-> NoError]

\* throw new McpInitializationError(serverName, `Failed to ...`, error)
ThrowInitError(i, c, error) ==
    [c EXCEPT !.pc = "rejected",
              !.reason = McpInitializationError(serverNames[i],
                                                InitErrorMessage(error), error)]

\* A faulty variant of EnterCatch: the error is raised without closing the transport.
EnterCatchNoClose(i, c, error) ==
    ThrowInitError(i, [c EXCEPT !.cause = error], error)

\* A faulty variant of EnterCatch: a first failure of the handshake is answered
\* by connecting once more in the place of closing and giving up.
EnterCatchRetrying(i, c, error) ==
    IF c.pc = "connecting" /\ c.connectCalls < 2
    THEN [c EXCEPT !.connectCalls = @ + 1]
    ELSE IF c.transport # "null"
    THEN [c EXCEPT !.pc = "closing", !.closeCalls = @ + 1, !.cause = error]
    ELSE ThrowInitError(i, [c EXCEPT !.cause = error], error)

\* catch (error) { if (transport) { try { await transport.close() ...
EnterCatch(i, c, error) ==
    IF c.transport # "null"
    THEN [c EXCEPT !.pc = "closing", !.closeCalls = @ + 1, !.cause = error]
    ELSE ThrowInitError(i, [c EXCEPT !.cause = error], error)

\* A faulty variant of ErrorAfterClose: a failing close replaces the original error.
ErrorAfterCloseOverridden(error, closeOutcome) ==
    IF closeOutcome = NoError THEN error ELSE closeOutcome

\* catch (cleanupError) { logger.error(...) } : the original error stays the one
\* that is raised.
ErrorAfterClose(error, closeOutcome) == error

\* logger.error(`Failed to cleanup during initialization error: ${cleanupError}`)
\* `${error}` of a thrown value: String(error)
ErrorToString(error) ==
    IF error.name = "Error" THEN "Error: " \o error.message ELSE error.message

InitCleanupLine(closeOutcome) ==
    [kind |-> "init-cleanup", server |-> "", text |-> ErrorToString(closeOutcome)]

(***************************************************************************)
(* The Logger of src/src/logger.ts.                                        *)
(***************************************************************************)
\* enum LogLevel and LOG_LEVEL_MAP: the numeric level of each level name
LOG_LEVEL_MAP ==
    [trace |-> 0, debug |-> 1, info |-> 2, warn |-> 3, error |-> 4, fatal |-> 5]

LogMethods == DOMAIN LOG_LEVEL_MAP

\* level.toLowerCase() on the level names a caller may give
ToLowerCase(str) == IF str = "WARN" THEN "warn" ELSE str

\* The level given to the constructor: none, a level name or a numeric level.
DefaultLevelOption == [kind |-> "default", name |-> "", value |-> 0]
LevelName(str) == [kind |-> "name", name |-> str, value |-> 0]
LevelNumber(n) == [kind |-> "number", name |-> "", value |-> n]
LevelOptions ==
    {DefaultLevelOption}
    \cup {LevelName(str) : str \in LogMethods \cup {"WARN"}}
    \cup {LevelNumber(LOG_LEVEL_MAP[str]) : str \in LogMethods}

\* parseLogLevel(level), the destructuring default level = LogLevel.INFO applied
parseLogLevel(option) ==
    CASE option.kind = "number" -> option.value
      [] option.kind = "name" -> LOG_LEVEL_MAP[ToLowerCase(option.name)]
      [] OTHER -> LOG_LEVEL_MAP["info"]

\* new Logger({ level })
NewLogger(option) ==
    [option |-> option, level |-> parseLogLevel(option), calls |-> <<>>]

\* A faulty variant of Emits: a call at the minimum level is suppressed too.
EmitsAbove(level, minimum) == level > minimum

\* log(level, ...args): if (level < this.level) return; console.log(...)
Emits(level, minimum) == ~(level < minimum)

\* logger.trace(...), ..., logger.fatal(...): createLogMethod(level)
LoggerCall(method) ==
    /\ Len(logger.calls) < MaxLogCalls
    /\ logger' = [logger EXCEPT !.calls = Append(@,
                    [method |-> method,
                     emitted |-> Emits(LOG_LEVEL_MAP[method], logger.level)])]
    /\ UNCHANGED <<configs, processPath, started, conn, settleOrder, fleet,
                   cleanupRun, errorLog, call>>

(***************************************************************************)
(* The state after the call of convertMcpToLangchainTools, before the map  *)
(* over Object.entries(configs) has called its callback.                   *)
(***************************************************************************)
NoValue == [defined |-> FALSE, tools |-> <<>>]
IdleCall ==
    [pc |-> "idle", tool |-> 0, input |-> "", requests |-> <<>>,
     response |-> [status |-> "none"], outcome |-> [kind |-> "none"]]

InitWith(sizes, configEnvs, procPaths) ==
    /\ \E n \in sizes : \E envs \in [1..n -> configEnvs] :
          configs = [i \in 1..n |-> [name |-> ServerNamePool[i], env |-> envs[i]]]
    /\ processPath \in procPaths
    /\ started = 0
    /\ conn = [i \in 1..Len(configs) |-> IdleConnector]
    /\ settleOrder = <<>>
    /\ fleet = [pc |-> "pending", allTools |-> <<>>, cleanupCallbacks |-> <<>>,
                value |-> NoValue, reason |-> NoError]
    /\ cleanupRun = [pc |-> "idle", cb |-> <<>>, calls |-> 0]
    /\ errorLog = <<>>
    /\ call = IdleCall

\* new Logger({ level: options?.logLevel || 'info' }), no logLevel being given
FleetLogger == NewLogger(LevelName("info"))

Init ==
    /\ InitWith(0..MaxServers, {NoConfigEnv}, {ProcessPath("/usr/bin")})
    /\ logger = FleetLogger

Settled(c) == c.pc \in {"fulfilled", "rejected"}

\* The connector's promise settles when its code returns or throws.
NoteSettled(i, c) == IF Settled(c) THEN Append(settleOrder, i) ELSE settleOrder

(***************************************************************************)
(* convertSingleMcpToLangchainTools(name, config, logger), up to its first *)
(* await.  The map calls it for the entries in key order, each call        *)
(* running until it awaits connect (or throws).                            *)
(***************************************************************************)
StartConnector(i) ==
    /\ fleet.pc = "pending"
    /\ i = started + 1
    /\ i <= N
    /\ started' = i
    /\ LET env == EffectiveEnv(configs[i].env, processPath)
           c == conn[i]
           newTransport == NewObject({conn[j].transportId : j \in Servers})
           newClient == NewObject({conn[j].clientId : j \in Servers})
       IN \E outcome \in {"ok", "transport", "client"} : \E cause \in InitCauses :
            LET next ==
                  CASE outcome = "transport" ->
                         \* new StdioClientTransport(...) throws: transport is null
                         EnterCatch(i, c, cause)
                    [] outcome = "client" ->
                         \* new Client(...) throws: the transport exists
                         EnterCatch(i, [c EXCEPT !.transport = "open", !.env = env,
                                                 !.transportId = newTransport],
                                    cause)
                    [] OTHER ->
                         \* await client.connect(transport)
                         [c EXCEPT !.transport = "open", !.env = env,
                                   !.transportId = newTransport,
                                   !.client = "created", !.clientId = newClient,
                                   !.connectCalls = @ + 1,
                                   !.pc = "connecting"]
            IN /\ conn' = [conn EXCEPT ![i] = next]
               /\ settleOrder' = NoteSettled(i, next)
    /\ UNCHANGED <<logger, configs, processPath, fleet, cleanupRun, errorLog, call>>

\* All the map callbacks have run up to their first await; the promise jobs run
\* only after the synchronous part of convertMcpToLangchainTools.
MapDone == started = N

\* await client.connect(transport) settles; on success tools/list is requested.
ConnectSettles(i) ==
    /\ MapDone
    /\ i \in Servers
    /\ conn[i].pc = "connecting"
    /\ \E outcome \in {NoError} \cup InitCauses :
          LET next == IF outcome = NoError
                      THEN [conn[i] EXCEPT !.pc = "listing", !.listCalls = @ + 1]
                      ELSE EnterCatch(i, conn[i], outcome)
          IN /\ conn' = [conn EXCEPT ![i] = next]
             /\ settleOrder' = NoteSettled(i, next)
    /\ UNCHANGED <<logger, configs, processPath, started, fleet, cleanupRun, errorLog, call>>

\* A faulty variant of WrapFailure: the tools are wrapped after the try block,
\* so that the error of the schema compiler meets no close of the transport.
WrapFailureOutsideTry(i, c, cause) ==
    ThrowInitError(i, [c EXCEPT !.cause = cause], cause)

\* jsonSchemaToZod throws inside toolsResponse.tools.map, which is inside the
\* try block: the catch block takes the error as it takes any other.
WrapFailure(i, c, cause) == EnterCatch(i, c, cause)

\* await client.request({ method: "tools/list" }, ...) settles; on success the
\* tools are wrapped and { tools, cleanup } is returned, unless jsonSchemaToZod
\* throws on a declared tool, which the catch block handles as any failure.
ListSettles(i) ==
    /\ MapDone
    /\ i \in Servers
    /\ conn[i].pc = "listing"
    /\ \/ \E declared \in DeclaredLists :
            LET next == [conn[i] EXCEPT !.pc = "fulfilled", !.declared = declared,
                                         !.tools = WrapTools(i, declared)]
            IN /\ conn' = [conn EXCEPT ![i] = next]
               /\ settleOrder' = NoteSettled(i, next)
       \/ \E cause \in SchemaErrors :
            LET next == WrapFailure(i, conn[i], cause)
            IN /\ conn' = [conn EXCEPT ![i] = next]
               /\ settleOrder' = NoteSettled(i, next)
       \/ \E cause \in InitCauses :
            LET next == EnterCatch(i, conn[i], cause)
            IN /\ conn' = [conn EXCEPT ![i] = next]
               /\ settleOrder' = NoteSettled(i, next)
    /\ UNCHANGED <<logger, configs, processPath, started, fleet, cleanupRun, errorLog, call>>

\* The await transport.close() of the catch block settles; a failure of it is
\* logged, and the McpInitializationError is thrown.
ErrorCloseSettles(i) ==
    /\ MapDone
    /\ i \in Servers
    /\ conn[i].pc = "closing"
    /\ \E outcome \in {NoError} \cup CloseErrors :
          LET closed == [conn[i] EXCEPT !.closeSettled = @ + 1,
                                        !.closeError = outcome]
              next == ThrowInitError(i, closed, ErrorAfterClose(conn[i].cause, outcome))
          IN /\ conn' = [conn EXCEPT ![i] = next]
             /\ settleOrder' = NoteSettled(i, next)
             /\ errorLog' = IF outcome = NoError THEN errorLog
                            ELSE Append(errorLog, InitCleanupLine(outcome))
    /\ UNCHANGED <<logger, configs, processPath, started, fleet, cleanupRun, call>>

(***************************************************************************)
(* convertMcpToLangchainTools after await Promise.allSettled(...).         *)
(***************************************************************************)
\* The settled result of the promise of connector i.
SettledResult(c, i) ==
    IF c[i].pc = "fulfilled"
    THEN [status |-> "fulfilled", name |-> serverNames[i], tools |-> c[i].tools,
          cleanup |-> i, reason |-> NoError]
    ELSE [status |-> "rejected", name |-> serverNames[i], tools |-> <<>>,
          cleanup |-> i, reason |-> c[i].reason]

\* A faulty variant of AllSettled: the results come in the order the promises settled.
AllSettledInSettleOrder(c, order) ==
    [k \in 1..Len(order) |-> SettledResult(c, order[k])]

\* Promise.allSettled(serverInitPromises): the results in the order of the
\* promises, whatever the order they settled in.
AllSettled(c, order) == [k \in 1..Len(c) |-> SettledResult(c, k)]

\* logger.error(`MCP server "${serverNames[index]}": failed to initialize: ...`)
InitFailureLine(name, reason) ==
    [kind |-> "init-failure", server |-> name,
     text |-> ErrorToString(reason.details)]

WalkStart ==
    [allTools |-> <<>>, cleanupCallbacks |-> <<>>, thrown |-> NoError,
     lines |-> <<>>]

\* A faulty variant of ForEachResult: a rejected result is logged and skipped.
RECURSIVE ForEachResultSkipping(_, _, _)
ForEachResultSkipping(results, index, acc) ==
    IF index > Len(results) THEN acc
    ELSE IF results[index].status = "fulfilled"
    THEN ForEachResultSkipping(results, index + 1,
            [acc EXCEPT !.allTools = @ \o results[index].tools,
                        !.cleanupCallbacks = Append(@, results[index].cleanup)])
    ELSE ForEachResultSkipping(results, index + 1,
            [acc EXCEPT !.lines = Append(@,
                InitFailureLine(serverNames[index], results[index].reason))])

\* A faulty variant of ForEachResult: every rejected result is logged and the
\* walk goes on; the error raised in the end is that of the last one.
RECURSIVE ForEachResultThrowingLast(_, _, _)
ForEachResultThrowingLast(results, index, acc) ==
    IF index > Len(results) THEN acc
    ELSE IF results[index].status = "fulfilled"
    THEN ForEachResultThrowingLast(results, index + 1,
            [acc EXCEPT !.allTools = @ \o results[index].tools,
                        !.cleanupCallbacks = Append(@, results[index].cleanup)])
    ELSE ForEachResultThrowingLast(results, index + 1,
            [acc EXCEPT !.thrown = results[index].reason,
                        !.lines = Append(@,
                           InitFailureLine(serverNames[index], results[index].reason))])

\* results.forEach((result, index) => { ... }): a fulfilled result adds its
\* tools and its cleanup, a rejected one is logged and thrown, which ends the walk.
RECURSIVE ForEachResult(_, _, _)
ForEachResult(results, index, acc) ==
    IF index > Len(results) THEN acc
    ELSE IF results[index].status = "fulfilled"
    THEN ForEachResult(results, index + 1,
            [acc EXCEPT !.allTools = @ \o results[index].tools,
                        !.cleanupCallbacks = Append(@, results[index].cleanup)])
    ELSE [acc EXCEPT !.thrown = results[index].reason,
                     !.lines = Append(@,
                        InitFailureLine(serverNames[index], results[index].reason))]

\* A faulty variant of FleetOutcome: no result at all is taken for a failure.
FleetOutcomeEmptyFails(results) ==
    IF results = <<>>
    THEN [WalkStart EXCEPT !.thrown =
            McpInitializationError("", "No MCP servers", NoError)]
    ELSE ForEachResult(results, 1, WalkStart)

\* The walk over the results, from empty allTools and cleanupCallbacks.
FleetOutcome(results) == ForEachResult(results, 1, WalkStart)

\* A faulty variant of EveryInitSettled: Promise.all in the place of
\* Promise.allSettled, which goes on as soon as one promise has rejected.
EveryInitFulfilledOrOneRejected(c) ==
    \/ \A i \in DOMAIN c : c[i].pc = "fulfilled"
    \/ \E i \in DOMAIN c : c[i].pc = "rejected"

\* await Promise.allSettled(serverInitPromises) goes on once every promise has
\* settled.
EveryInitSettled(c) == \A i \in DOMAIN c : Settled(c[i])

\* A faulty variant of ConnectorsAfterWalk: when the walk throws, the cleanup
\* of every connector that was fulfilled is called before the error is raised.
ConnectorsAfterWalkClosingOthers(c, out) ==
    IF out.thrown = NoError THEN c
    ELSE [i \in DOMAIN c |->
            IF c[i].pc = "fulfilled" /\ c[i].transport # "null"
            THEN [c[i] EXCEPT !.closeCalls = @ + 1]
            ELSE c[i]]

\* The walk calls no cleanup callback: it only collects them, and a throw
\* leaves convertMcpToLangchainTools with the callbacks collected so far unused.
ConnectorsAfterWalk(c, out) == c

\* The promise of convertMcpToLangchainTools settles: once every connector has
\* settled, the results are walked; a throw rejects, else { tools, cleanup }.
Aggregate ==
    /\ fleet.pc = "pending"
    /\ MapDone
    /\ EveryInitSettled(conn)
    /\ LET out == FleetOutcome(AllSettled(conn, settleOrder))
       IN /\ fleet' = IF out.thrown = NoError
                      THEN [pc |-> "resolved", allTools |-> out.allTools,
                            cleanupCallbacks |-> out.cleanupCallbacks,
                            value |-> [defined |-> TRUE, tools |-> out.allTools],
                            reason |-> NoError]
                      ELSE [pc |-> "rejected", allTools |-> out.allTools,
                            cleanupCallbacks |-> out.cleanupCallbacks,
                            value |-> NoValue, reason |-> out.thrown]
          /\ errorLog' = errorLog \o out.lines
          /\ conn' = ConnectorsAfterWalk(conn, out)
    /\ UNCHANGED <<logger, configs, processPath, started, settleOrder, cleanupRun, call>>

(***************************************************************************)
(* The composite cleanup returned by convertMcpToLangchainTools.           *)
(***************************************************************************)
\* results.filter(result => result.status === 'rejected')
RECURSIVE FilterRejected(_)
FilterRejected(results) ==
    IF results = <<>> THEN <<>>
    ELSE IF Head(results).status = "rejected"
         THEN <<Head(results)>> \o FilterRejected(Tail(results))
         ELSE FilterRejected(Tail(results))

\* logger.error(`MCP server "${serverNames[index]}": failed to close: ${failure.reason}`)
CloseFailureLine(name, reason) ==
    [kind |-> "close-failure", server |-> name, text |-> ErrorToString(reason)]

\* A faulty variant of CompositeCleanupSettle: Promise.all in the place of
\* Promise.allSettled, so that a failing close rejects the composite cleanup.
CompositeCleanupSettleAll(names, results) ==
    LET failures == FilterRejected(results)
    IN  IF failures = <<>>
        THEN [pc |-> "resolved", reason |-> NoError, lines |-> <<>>]
        ELSE [pc |-> "rejected", reason |-> failures[1].reason, lines |-> <<>>]

\* After await Promise.allSettled(cleanupCallbacks.map(callback => callback())):
\* failures.forEach((failure, index) => logger.error(... serverNames[index] ...)),
\* index being the position among the failures; then cleanup returns.
CompositeCleanupSettle(names, results) ==
    LET failures == FilterRejected(results)
    IN  [pc |-> "resolved", reason |-> NoError,
         lines |-> [index \in 1..Len(failures) |->
                      CloseFailureLine(names[index], failures[index].reason)]]

\* A faulty variant of ConnectorsAfterCallbacks: a connector remembers that it
\* was closed, and its cleanup does nothing from the second call on.
ConnectorsAfterCallbacksClosingOnce(c, callbacks) ==
    [i \in DOMAIN c |->
        LET mine == {k \in 1..Len(callbacks) : callbacks[k] = i}
        IN IF c[i].transport # "null" /\ c[i].closeCalls = 0
           THEN [c[i] EXCEPT !.closeCalls = @ + Cardinality(mine)]
           ELSE c[i]]

\* A faulty variant of ConnectorsAfterCallbacks: every callback closes the
\* transports of all the connectors.
ConnectorsAfterCallbacksClosingAll(c, callbacks) ==
    [i \in DOMAIN c |->
        IF c[i].transport # "null"
        THEN [c[i] EXCEPT !.closeCalls = @ + Len(callbacks)]
        ELSE c[i]]

\* cleanupCallbacks.map(callback => callback()): each callback calls close on
\* the transport of its own connector, if (transport).
ConnectorsAfterCallbacks(c, callbacks) ==
    [i \in DOMAIN c |->
        LET mine == {k \in 1..Len(callbacks) : callbacks[k] = i}
        IN IF c[i].transport # "null"
           THEN [c[i] EXCEPT !.closeCalls = @ + Cardinality(mine)]
           ELSE c[i]]

\* A faulty variant of EveryCallbackSettled: Promise.all in the place of
\* Promise.allSettled, which goes on as soon as one callback has rejected.
EveryCallbackFulfilledOrOneRejected(cbs) ==
    \/ \A k \in 1..Len(cbs) : cbs[k].status = "fulfilled"
    \/ \E k \in 1..Len(cbs) : cbs[k].status = "rejected"

\* await Promise.allSettled(cleanupCallbacks.map(...)) goes on once every
\* callback has settled.
EveryCallbackSettled(cbs) == \A k \in 1..Len(cbs) : cbs[k].status # "pending"

\* cleanup() is called: every callback is called and runs up to its
\* await transport.close() (the transport of a fulfilled connector is not null).
CallCleanup ==
    /\ fleet.pc = "resolved"
    /\ cleanupRun.pc = "idle"
    /\ cleanupRun' = [pc |-> "running", calls |-> cleanupRun.calls + 1,
                      cb |-> [k \in 1..Len(fleet.cleanupCallbacks) |->
                                [server |-> fleet.cleanupCallbacks[k],
                                 status |-> "pending", reason |-> NoError]]]
    /\ conn' = ConnectorsAfterCallbacks(conn, fleet.cleanupCallbacks)
    /\ UNCHANGED <<logger, configs, processPath, started, settleOrder, fleet, errorLog, call>>

\* The await transport.close() of the k-th callback settles.
CleanupCloseSettles(k) ==
    /\ cleanupRun.pc = "running"
    /\ k \in 1..Len(cleanupRun.cb)
    /\ cleanupRun.cb[k].status = "pending"
    /\ \E outcome \in {NoError} \cup CloseErrors :
          /\ cleanupRun' = [cleanupRun EXCEPT
                ![ "cb" ][k] = [@ EXCEPT
                    !.status = IF outcome = NoError THEN "fulfilled" ELSE "rejected",
                    !.reason = outcome]]
          /\ conn' = [conn EXCEPT ![cleanupRun.cb[k].server] =
                        [@ EXCEPT !.closeSettled = @ + 1, !.closeError = outcome]]
    /\ UNCHANGED <<logger, configs, processPath, started, settleOrder, fleet, errorLog, call>>

\* Every callback has settled: the failures are logged and cleanup resolves.
CleanupSettles ==
    /\ cleanupRun.pc = "running"
    /\ EveryCallbackSettled(cleanupRun.cb)
    /\ LET out == CompositeCleanupSettle(serverNames, cleanupRun.cb)
       IN /\ cleanupRun' = [cleanupRun EXCEPT !.pc = out.pc]
          /\ errorLog' = errorLog \o out.lines
    /\ UNCHANGED <<logger, configs, processPath, started, conn, settleOrder, fleet, call>>

Next ==
    \/ \E i \in 1..MaxServers : StartConnector(i)
    \/ \E i \in 1..MaxServers : ConnectSettles(i)
    \/ \E i \in 1..MaxServers : ListSettles(i)
    \/ \E i \in 1..MaxServers : ErrorCloseSettles(i)
    \/ Aggregate
    \/ CallCleanup
    \/ \E k \in 1..MaxServers : CleanupCloseSettles(k)
    \/ CleanupSettles

Spec == Init /\ [][Next]_vars

\* The code between two awaits runs to its next await once its promise has
\* settled (the job queue is served in order), and every external operation
\* that was started settles: the handshake, tools/list and the closes.  The
\* caller is not bound to call cleanup.
Fairness ==
    /\ \A i \in 1..MaxServers : WF_vars(StartConnector(i))
    /\ \A i \in 1..MaxServers : WF_vars(ConnectSettles(i))
    /\ \A i \in 1..MaxServers : WF_vars(ListSettles(i))
    /\ \A i \in 1..MaxServers : WF_vars(ErrorCloseSettles(i))
    /\ WF_vars(Aggregate)
    /\ \A k \in 1..MaxServers : WF_vars(CleanupCloseSettles(k))
    /\ WF_vars(CleanupSettles)

SpecLive == Init /\ [][Next]_vars /\ Fairness

(***************************************************************************)
(* A tool's func: one tools/call request on the client of its connector.   *)
(***************************************************************************)
Quote(str) == "\"" \o str \o "\""

\* JSON.stringify of one content item { type, text }
JsonStringifyItem(item) ==
    "{\"type\":" \o Quote(item.type) \o ",\"text\":" \o Quote(item.text) \o "}"

\* The elements of an array, encoded and separated by commas.
RECURSIVE JoinItems(_)
JoinItems(content) ==
    IF content = <<>> THEN ""
    ELSE IF Len(content) = 1 THEN JsonStringifyItem(content[1])
    ELSE JsonStringifyItem(content[1]) \o "," \o JoinItems(Tail(content))

\* JSON.stringify(result?.content) of an array of content items
JsonStringify(content) == "[" \o JoinItems(content) \o "]"

\* A faulty variant of ToolCallRequest: the request goes to the client of the
\* first server that declared a tool of that name, as with one registry of
\* clients keyed by tool name.
ToolCallRequestByName(tool, input) ==
    LET declaring == {i \in 1..Len(conn) :
                        \E j \in 1..Len(conn[i].tools) : conn[i].tools[j].name = tool.name}
        first == CHOOSE i \in declaring : \A j \in declaring : i <= j
    IN [server |-> first, method |-> "tools/call", name |-> tool.name,
        arguments |-> input]

\* client.request({ method: "tools/call", params: { name, arguments } }, ...)
\* on the client of the connector whose code created the tool.
ToolCallRequest(tool, input) ==
    [server |-> tool.server, method |-> "tools/call", name |-> tool.name,
     arguments |-> input]

FulfilledResponse(content) ==
    [status |-> "fulfilled", content |-> content, reason |-> NoError]
RejectedResponse(error) ==
    [status |-> "rejected", content |-> <<>>, reason |-> error]
CallResponses ==
    {FulfilledResponse(c) : c \in Contents} \cup {RejectedResponse(e) : e \in CallErrors}

\* A faulty variant of FuncOutcome: a failing request is wrapped as the initialization
\* failures are.
FuncOutcomeWrapped(tool, response) ==
    IF response.status = "rejected"
    THEN [kind |-> "threw", value |-> "",
          error |-> McpInitializationError(serverNames[tool.server],
                        InitErrorMessage(response.reason), response.reason)]
    ELSE [kind |-> "returned", value |-> JsonStringify(response.content),
          error |-> NoError]

RECURSIVE FilterText(_)
FilterText(content) ==
    IF content = <<>> THEN <<>>
    ELSE IF Head(content).type = "text"
         THEN <<Head(content)>> \o FilterText(Tail(content))
         ELSE FilterText(Tail(content))

\* A faulty variant of FuncOutcome: only the items of type text are kept.
FuncOutcomeFiltered(tool, response) ==
    IF response.status = "rejected"
    THEN [kind |-> "threw", value |-> "", error |-> response.reason]
    ELSE [kind |-> "returned", value |-> JsonStringify(FilterText(response.content)),
          error |-> NoError]

\* After const result = await client?.request(...): a rejection leaves func as
\* it is; a response is returned as JSON.stringify(result?.content).
FuncOutcome(tool, response) ==
    IF response.status = "rejected"
    THEN [kind |-> "threw", value |-> "", error |-> response.reason]
    ELSE [kind |-> "returned", value |-> JsonStringify(response.content),
          error |-> NoError]

\* tools[k].func(input) is called: it issues its request and awaits it.
InvokeTool(k, input) ==
    /\ fleet.pc = "resolved"
    /\ k \in 1..Len(fleet.value.tools)
    /\ call.pc # "pending"
    /\ call' = [pc |-> "pending", tool |-> k, input |-> input,
                requests |-> <<ToolCallRequest(fleet.value.tools[k], input)>>,
                response |-> [status |-> "none"], outcome |-> [kind |-> "none"]]
    /\ UNCHANGED <<logger, configs, processPath, started, conn, settleOrder, fleet,
                   cleanupRun, errorLog>>

\* The awaited tools/call request settles and func returns or throws.
RequestSettles ==
    /\ call.pc = "pending"
    /\ \E response \in CallResponses :
          LET out == FuncOutcome(fleet.value.tools[call.tool], response)
          IN call' = [call EXCEPT !.pc = out.kind, !.response = response,
                                  !.outcome = out]
    /\ UNCHANGED <<logger, configs, processPath, started, conn, settleOrder, fleet,
                   cleanupRun, errorLog>>

\* One server, its tools invoked after the initialization.
InitInvoke ==
    /\ InitWith({1}, {NoConfigEnv}, {ProcessPath("/usr/bin")})
    /\ logger = FleetLogger

NextInvoke ==
    \/ Next
    \/ \E k \in 1..MaxTools : \E input \in Inputs : InvokeTool(k, input)
    \/ RequestSettles

SpecInvoke == InitInvoke /\ [][NextInvoke]_vars

\* cleanup() is called once more after an earlier call of it has resolved:
\* the same callbacks are called again, each one finding its transport as the
\* connector left it (nothing sets transport to null after a close).
CallCleanupAgain ==
    /\ fleet.pc = "resolved"
    /\ cleanupRun.pc = "resolved"
    /\ cleanupRun.calls < MaxCleanupCalls
    /\ cleanupRun' = [pc |-> "running", calls |-> cleanupRun.calls + 1,
                      cb |-> [k \in 1..Len(fleet.cleanupCallbacks) |->
                                [server |-> fleet.cleanupCallbacks[k],
                                 status |-> "pending", reason |-> NoError]]]
    /\ conn' = ConnectorsAfterCallbacks(conn, fleet.cleanupCallbacks)
    /\ UNCHANGED <<logger, configs, processPath, started, settleOrder, fleet, errorLog, call>>

\* Two servers and any one of the tools of their fleet invoked, at any time
\* after the initialization; the request is followed up to its being issued
\* and is left in flight.
InitRoute ==
    /\ InitWith({2}, {NoConfigEnv}, {ProcessPath("/usr/bin")})
    /\ logger = FleetLogger

NextRoute ==
    \/ Next
    \/ \E k \in 1..(MaxServers * MaxTools) : \E input \in Inputs : InvokeTool(k, input)

SpecRoute == InitRoute /\ [][NextRoute]_vars

\* The same, with the cleanup called more than once: a tool is invoked before,
\* between or after the cleanups.
NextAgain ==
    \/ NextRoute
    \/ CallCleanupAgain

SpecAgain == InitRoute /\ [][NextAgain]_vars

\* One server, over every configured environment and every process PATH.
InitEnv ==
    /\ InitWith({1}, AllConfigEnvs, AllProcessPaths)
    /\ logger = FleetLogger

\* A Logger on its own, constructed with every level option, and the calls of
\* its methods.
InitLogger ==
    /\ InitWith({0}, {NoConfigEnv}, {ProcessPath("/usr/bin")})
    /\ logger \in {NewLogger(option) : option \in LevelOptions}

NextLogger == \E method \in LogMethods : LoggerCall(method)

SpecLogger == InitLogger /\ [][NextLogger]_vars

SpecEnv == InitEnv /\ [][Next]_vars

(***************************************************************************)
(* Properties of the fleet initializer and of the composite cleanup.       *)
(***************************************************************************)
FleetSettled == fleet.pc \in {"resolved", "rejected"}
FailedServers == {i \in Servers : conn[i].pc = "rejected"}

\* C1: if at least one connector's initialization fails, the settled
\* convertMcpToLangchainTools has rejected with the McpInitializationError of a
\* server that failed and has returned no { tools, cleanup } value, not even the
\* tools of the servers that succeeded.
C1_FailureRejectsWholeFleet ==
    (FleetSettled /\ FailedServers # {}) =>
        /\ fleet.pc = "rejected"
        /\ fleet.value = NoValue
        /\ fleet.reason.name = "McpInitializationError"
        /\ \E i \in FailedServers :
              /\ fleet.reason.serverName = serverNames[i]
              /\ fleet.reason = conn[i].reason

\* A fleet that rejected although an earlier server succeeded with tools, the
\* failing server having settled first.
C1_Witness ==
    /\ fleet.pc = "rejected"
    /\ N = 2
    /\ conn[1].pc = "fulfilled" /\ Len(conn[1].tools) > 0
    /\ conn[2].pc = "rejected"
    /\ settleOrder = <<2, 1>>
    /\ fleet.value = NoValue

\* The tools the backends declared, server by server in key order.
RECURSIVE DeclaredUpTo(_)
DeclaredUpTo(k) ==
    IF k = 0 THEN <<>>
    ELSE DeclaredUpTo(k - 1) \o
         [j \in 1..Len(conn[k].declared) |->
            [server |-> k, name |-> conn[k].declared[j].name]]

RECURSIVE DeclaredCountUpTo(_)
DeclaredCountUpTo(k) ==
    IF k = 0 THEN 0 ELSE DeclaredCountUpTo(k - 1) + Len(conn[k].declared)

ReturnedToolOwners ==
    [j \in 1..Len(fleet.value.tools) |->
        [server |-> fleet.value.tools[j].server, name |-> fleet.value.tools[j].name]]

\* C2: when every connector succeeds, the returned tools are the concatenation,
\* in key order of the servers, of each server's tools in the order its backend
\* declared them, and their number is the sum of the per-server counts, whatever
\* the order the connectors completed in.
C2_ToolsInServerThenDeclaredOrder ==
    fleet.pc = "resolved" =>
        /\ fleet.value.defined
        /\ ReturnedToolOwners = DeclaredUpTo(N)
        /\ Len(fleet.value.tools) = DeclaredCountUpTo(N)

\* Server 1 with two tools and server 2 with none, server 2 completing first.
C2_Witness ==
    /\ fleet.pc = "resolved"
    /\ N = 2
    /\ settleOrder = <<2, 1>>
    /\ Len(conn[1].declared) = 2 /\ conn[1].declared[1] # conn[1].declared[2]
    /\ conn[2].declared = <<>>
    /\ Len(fleet.value.tools) = 2

\* C3: the composite cleanup never rejects; it resolves once every close has
\* settled, whichever of the closes failed.
C3_CleanupNeverRejects ==
    /\ cleanupRun.pc # "rejected"
    /\ cleanupRun.pc = "resolved" =>
          \A k \in 1..Len(cleanupRun.cb) : cleanupRun.cb[k].status # "pending"
    /\ (cleanupRun.pc = "running"
        /\ \A k \in 1..Len(cleanupRun.cb) : cleanupRun.cb[k].status # "pending")
          => ENABLED CleanupSettles

\* A cleanup that resolved although one close failed and another succeeded.
C3_Witness ==
    /\ cleanupRun.pc = "resolved"
    /\ \E k \in 1..Len(cleanupRun.cb) : cleanupRun.cb[k].status = "rejected"
    /\ \E k \in 1..Len(cleanupRun.cb) : cleanupRun.cb[k].status = "fulfilled"

\* The servers named by the close-failure lines of the log, in order.
RECURSIVE CloseFailureServers(_)
CloseFailureServers(lines) ==
    IF lines = <<>> THEN <<>>
    ELSE IF Head(lines).kind = "close-failure"
         THEN <<Head(lines).server>> \o CloseFailureServers(Tail(lines))
         ELSE CloseFailureServers(Tail(lines))

\* The servers that own the failed closes of the cleanup, in order.
RECURSIVE FailedCloseOwners(_)
FailedCloseOwners(cbs) ==
    IF cbs = <<>> THEN <<>>
    ELSE IF Head(cbs).status = "rejected"
         THEN <<serverNames[Head(cbs).server]>> \o FailedCloseOwners(Tail(cbs))
         ELSE FailedCloseOwners(Tail(cbs))

\* C4: for every per-server close that fails during the composite cleanup, the
\* logged error line names the server that owns the failed close.
C4_CloseFailureNamesOwner ==
    cleanupRun.pc = "resolved" =>
        CloseFailureServers(errorLog) = FailedCloseOwners(cleanupRun.cb)

\* C5: a connector that fails after its transport was constructed has called
\* close on it, and the close has settled, before the McpInitializationError is
\* raised; one that fails before a transport exists calls no close.
C5_CloseBeforeInitError ==
    \A i \in Servers :
        /\ conn[i].pc = "closing" =>
              /\ conn[i].transport # "null"
              /\ conn[i].closeCalls = 1 /\ conn[i].closeSettled = 0
              /\ conn[i].reason = NoError
        /\ conn[i].pc = "rejected" =>
              /\ conn[i].reason.name = "McpInitializationError"
              /\ IF conn[i].transport # "null"
                 THEN conn[i].closeCalls = 1 /\ conn[i].closeSettled = 1
                 ELSE conn[i].closeCalls = 0 /\ conn[i].closeSettled = 0

\* A tools/list failure after a constructed transport, next to a connector
\* whose transport constructor threw.
C5_Witness ==
    /\ \E i \in Servers :
          /\ conn[i].pc = "rejected" /\ conn[i].transport # "null"
          /\ conn[i].listCalls = 1 /\ conn[i].closeSettled = 1
    /\ \E i \in Servers :
          conn[i].pc = "rejected" /\ conn[i].transport = "null"

\* C6: the McpInitializationError of a failed connector carries the server's
\* name, a message embedding the original cause's message, and the original
\* cause as details, whether the error-path close succeeded or failed.
C6_CloseFailureKeepsOriginalError ==
    \A i \in Servers :
        conn[i].pc = "rejected" =>
            /\ conn[i].cause \in InitCauses \cup SchemaErrors
            /\ conn[i].reason.serverName = serverNames[i]
            /\ conn[i].reason.details = conn[i].cause
            /\ conn[i].reason.message =
                  "Failed to initialize MCP server: " \o conn[i].cause.message

\* A connector whose connect failed and whose error-path close failed too.
C6_Witness ==
    \E i \in Servers :
        /\ conn[i].pc = "rejected"
        /\ conn[i].connectCalls = 1 /\ conn[i].listCalls = 0
        /\ conn[i].closeError \in CloseErrors
        /\ conn[i].reason.message = "Failed to initialize MCP server: Connection failed"
        /\ \E k \in 1..Len(errorLog) : errorLog[k].kind = "init-cleanup"

TransportsCreated == Cardinality({i \in Servers : conn[i].transport # "null"})
ClientsCreated == Cardinality({i \in Servers : conn[i].client # "null"})
ClosesCalled == Cardinality({i \in Servers : conn[i].closeCalls > 0})

\* C7: for the empty configuration, convertMcpToLangchainTools resolves with
\* zero tools and creates no transport and no client, and its composite cleanup
\* resolves without calling a close and without logging a failure.
C7_EmptyFleet ==
    N = 0 =>
        /\ fleet.pc = "pending" => ENABLED Aggregate
        /\ fleet.pc # "rejected"
        /\ fleet.pc = "resolved" =>
              fleet.value = [defined |-> TRUE, tools |-> <<>>]
        /\ TransportsCreated = 0 /\ ClientsCreated = 0 /\ ClosesCalled = 0
        /\ cleanupRun.pc # "rejected"
        /\ cleanupRun.pc = "running" => ENABLED CleanupSettles
        /\ errorLog = <<>>

\* The empty fleet after its cleanup has resolved.
C7_Witness ==
    /\ N = 0
    /\ fleet.pc = "resolved"
    /\ cleanupRun.pc = "resolved"

(***************************************************************************)
(* Properties of a tool's func.                                            *)
(***************************************************************************)
CallSettled == call.pc \in {"returned", "threw"}

\* C8: a failing tools/call request is propagated unchanged to the caller of
\* func: the same error, not wrapped in an McpInitializationError and not
\* swallowed, after exactly one tools/call request.
C8_CallFailurePropagatesUnchanged ==
    /\ call.pc = "pending" => Len(call.requests) = 1
    /\ (CallSettled /\ call.response.status = "rejected") =>
          /\ call.pc = "threw"
          /\ call.outcome.error = call.response.reason
          /\ call.outcome.error \in CallErrors
          /\ call.outcome.error.name # "McpInitializationError"
          /\ Len(call.requests) = 1
          /\ call.requests[1].method = "tools/call"

\* A call whose request failed with an Error.
C8_Witness ==
    /\ call.pc = "threw"
    /\ call.response = RejectedResponse(ErrorObject("Tool execution failed"))
    /\ call.requests[1].name = "tool1"

MixedContent ==
    << [type |-> "text", text |-> "text content"],
       [type |-> "other", text |-> "should be filtered"],
       [type |-> "text", text |-> "more text"] >>

\* No two contents a backend may answer with have the same JSON encoding, so
\* the encoding of a content tells every item of it, in order.
EncodingTellsContent ==
    \A c1 \in Contents : \A c2 \in Contents :
        JsonStringify(c1) = JsonStringify(c2) => c1 = c2

\* C9: for every response to a tools/call request, func returns the JSON
\* encoding of the response's whole content: the encoding of no other content,
\* so every item is kept, in order, whatever its type.
C9_ResultIsJsonOfWholeContent ==
    (CallSettled /\ call.response.status = "fulfilled") =>
        /\ call.pc = "returned"
        /\ call.outcome.value = JsonStringify(call.response.content)
        /\ EncodingTellsContent
        /\ call.response.content = MixedContent =>
              call.outcome.value =
                 "[{\"type\":\"text\",\"text\":\"text content\"},"
                 \o "{\"type\":\"other\",\"text\":\"should be filtered\"},"
                 \o "{\"type\":\"text\",\"text\":\"more text\"}]"

\* A call answered with an item of type other between two text items.
C9_Witness ==
    /\ call.pc = "returned"
    /\ call.response.content = MixedContent

(***************************************************************************)
(* Properties of the environment passed to the transport.                  *)
(***************************************************************************)
ConfiguredVars(i) ==
    IF configs[i].env.defined THEN configs[i].env.vars ELSE EmptyEnv

\* C10: the environment passed to the transport holds every configured entry
\* unchanged; its PATH is the configured one whenever the configuration has a
\* PATH entry (the empty string included), and the process's own PATH (or the
\* empty string) exactly when it has none.
C10_ConfiguredPathIsPassedOn ==
    \A i \in Servers :
        conn[i].transport # "null" =>
            LET cfg == ConfiguredVars(i)
                env == conn[i].env
            IN /\ \A k \in DOMAIN cfg : k \in DOMAIN env /\ env[k] = cfg[k]
               /\ "PATH" \in DOMAIN env
               /\ "PATH" \notin DOMAIN cfg =>
                     env["PATH"] = IF processPath.defined THEN processPath.value
                                   ELSE ""

(***************************************************************************)
(* Properties of the wrapped tools.                                        *)
(***************************************************************************)
\* C11: every descriptor a backend returns yields exactly one tool, with the
\* descriptor's name and with its description when it has one and the empty
\* string when the backend omits it, never undefined.
C11_OneToolPerDescriptor ==
    \A i \in Servers :
        conn[i].pc = "fulfilled" =>
            /\ Len(conn[i].tools) = Len(conn[i].declared)
            /\ \A k \in 1..Len(conn[i].declared) :
                  LET d == conn[i].declared[k]
                      t == conn[i].tools[k]
                  IN /\ t.name = d.name
                     /\ t.description.defined
                     /\ t.description.text =
                           IF d.description.defined THEN d.description.text ELSE ""

\* A connector whose backend declared a tool with a description and one without.
C11_Witness ==
    \E i \in Servers :
        /\ conn[i].pc = "fulfilled"
        /\ \E k \in 1..Len(conn[i].declared) :
              /\ ~conn[i].declared[k].description.defined
              /\ conn[i].tools[k].description = Description("")
        /\ \E k \in 1..Len(conn[i].declared) :
              /\ conn[i].declared[k].description.defined
              /\ conn[i].tools[k].description = Description("Tool 1")

(***************************************************************************)
(* Properties of the Logger.                                               *)
(***************************************************************************)
\* The severities in ascending order.
LevelOrder == <<"trace", "debug", "info", "warn", "error", "fatal">>
Rank(str) == CHOOSE k \in 1..Len(LevelOrder) : LevelOrder[k] = str

\* The minimum a Logger was configured with: info when none is given.
ConfiguredMinimum(option) ==
    CASE option.kind = "number" -> LevelOrder[option.value + 1]
      [] option.kind = "name" -> IF option.name = "WARN" THEN "warn" ELSE option.name
      [] OTHER -> "info"

\* C12: a Logger configured with a minimum level, by name or by number, emits
\* a call if and only if the call's severity is at or above the minimum in the
\* order trace < debug < info < warn < error < fatal; the default minimum is info.
C12_EmitsAtOrAboveMinimum ==
    \A k \in 1..Len(logger.calls) :
        logger.calls[k].emitted <=>
            Rank(logger.calls[k].method) >= Rank(ConfiguredMinimum(logger.option))

\* A Logger at warn that suppressed an info call and emitted a warn call.
C12_Witness ==
    /\ logger.option = LevelName("warn")
    /\ Len(logger.calls) = 2
    /\ logger.calls[1] = [method |-> "info", emitted |-> FALSE]
    /\ logger.calls[2] = [method |-> "warn", emitted |-> TRUE]


\* C13: once convertMcpToLangchainTools has rejected, no cleanup is handed to
\* the caller (no value, the composite cleanup never runs) and every connector
\* that had initialized keeps its transport open: its close is never called.
FulfilledServers == {i \in Servers : conn[i].pc = "fulfilled"}
C13_RejectionLeaksInitializedServers ==
    fleet.pc = "rejected" =>
        /\ fleet.value = NoValue
        /\ cleanupRun.pc = "idle"
        /\ \A i \in FulfilledServers :
              /\ conn[i].transport = "open"
              /\ conn[i].closeCalls = 0
              /\ conn[i].closeSettled = 0
\* The fleet rejected although one of its connectors had initialized.
C13_Witness ==
    /\ fleet.pc = "rejected"
    /\ FulfilledServers # {}
    /\ \E i \in FulfilledServers : conn[i].transport = "open" /\ conn[i].closeCalls = 0


\* C14: the composite cleanup being called at most once (CallCleanup is
\* enabled only while no cleanup has run), close is called at most once on each
\* connector's transport: by the catch of a failed initialization or by the
\* connector's cleanup, never by both and never twice.
ClosedByCatch(i) == conn[i].pc \in {"closing", "rejected"} /\ conn[i].closeCalls > 0
ClosedByCleanup(i) ==
    /\ cleanupRun.pc # "idle"
    /\ \E k \in 1..Len(cleanupRun.cb) : cleanupRun.cb[k].server = i
C14_CloseAtMostOnce ==
    \A i \in Servers :
        /\ conn[i].closeCalls <= 1
        /\ conn[i].closeSettled <= conn[i].closeCalls
        /\ ~(ClosedByCatch(i) /\ ClosedByCleanup(i))
        /\ conn[i].closeCalls = 1 => (ClosedByCatch(i) \/ ClosedByCleanup(i))
\* The cleanup of a fleet of two servers has run: each transport was closed once.
C14_Witness ==
    /\ N = 2
    /\ cleanupRun.pc = "resolved"
    /\ \A i \in Servers : conn[i].closeCalls = 1 /\ ClosedByCleanup(i)


\* C15: convertMcpToLangchainTools settles only after every connector has
\* settled: while a connector is still waiting for its handshake, its
\* tools/list or its close, the fleet stays pending, also when another
\* connector has already failed; nothing but the settling of the last
\* connector lets it go on (no timeout, no cancellation).
UnsettledServers == {i \in Servers : ~Settled(conn[i])}
C15_SettlesOnlyAfterEveryConnector ==
    /\ FleetSettled => started = N /\ UnsettledServers = {}
    /\ UnsettledServers # {} => fleet.pc = "pending" /\ ~ENABLED Aggregate
\* One connector has failed while another one still waits for its handshake,
\* and the fleet is still pending.
C15_Witness ==
    /\ fleet.pc = "pending"
    /\ started = N
    /\ FailedServers # {}
    /\ \E i \in Servers : conn[i].pc = "connecting"


\* C16: when the fleet rejects, the error raised is that of the failed server
\* that comes first in configuration order, whichever connector failed first
\* in time, and the only fleet-level error line logged names that server with
\* its cause; the failures of later servers are neither raised nor logged by
\* the fleet.
FirstFailedServer == CHOOSE i \in FailedServers : \A j \in FailedServers : i <= j
IsFleetLine(line) == line.kind = "init-failure"
FleetLines == SelectSeq(errorLog, IsFleetLine)
C16_FirstInConfigOrderIsRaised ==
    fleet.pc = "rejected" =>
        /\ FailedServers # {}
        /\ fleet.reason = conn[FirstFailedServer].reason
        /\ fleet.reason.serverName = serverNames[FirstFailedServer]
        /\ FleetLines = <<InitFailureLine(serverNames[FirstFailedServer],
                                          conn[FirstFailedServer].reason)>>
        /\ \A j \in FailedServers \ {FirstFailedServer} :
              /\ fleet.reason # conn[j].reason
              /\ \A k \in 1..Len(FleetLines) : FleetLines[k].server # serverNames[j]
\* Both servers failed, the second one first in time, and the fleet rejected.
C16_Witness ==
    /\ fleet.pc = "rejected"
    /\ FailedServers = {1, 2}
    /\ settleOrder = <<2, 1>>
    /\ fleet.reason.serverName = serverNames[1]


\* C17: a call of the composite cleanup calls the cleanup of every connector of
\* the resolved fleet exactly once, also the ones after a close that failed,
\* and it resolves only after each of these closes has settled.
CallbacksOf(i) == {k \in 1..Len(cleanupRun.cb) : cleanupRun.cb[k].server = i}
PendingCallbacks == {k \in 1..Len(cleanupRun.cb) : cleanupRun.cb[k].status = "pending"}
C17_CleanupCallsEveryCallbackOnce ==
    cleanupRun.pc # "idle" =>
        /\ Len(cleanupRun.cb) = N
        /\ \A i \in Servers :
              /\ conn[i].pc = "fulfilled"
              /\ Cardinality(CallbacksOf(i)) = 1
              /\ conn[i].closeCalls = 1
              /\ conn[i].closeSettled = IF CallbacksOf(i) \subseteq PendingCallbacks
                                        THEN 0 ELSE 1
        /\ PendingCallbacks # {} => cleanupRun.pc = "running" /\ ~ENABLED CleanupSettles
        /\ cleanupRun.pc = "resolved" =>
              \A i \in Servers : conn[i].closeSettled = 1
\* The close of the first server has failed while the close of the second one,
\* called all the same, is still awaited by the running cleanup.
C17_Witness ==
    /\ N = 2
    /\ cleanupRun.pc = "running"
    /\ cleanupRun.cb[1].status = "rejected"
    /\ cleanupRun.cb[2].status = "pending"
    /\ conn[2].closeCalls = 1


\* The statement of C18 as it was made: every configured server has exactly one
\* transport and one client once the connectors have been started, none of
\* them shared, and a resolved fleet has one cleanup per server, in order.
\* It fails when a constructor throws: that server has no client, or neither.
HasTransport(i) == conn[i].transport # "null" /\ conn[i].transportId # NullObject
HasClient(i) == conn[i].client # "null" /\ conn[i].clientId # NullObject
NothingShared ==
    \A i, j \in Servers :
        i # j =>
            /\ HasTransport(i) /\ HasTransport(j) => conn[i].transportId # conn[j].transportId
            /\ HasClient(i) /\ HasClient(j) => conn[i].clientId # conn[j].clientId
CleanupsInConfigOrder ==
    fleet.pc = "resolved" =>
        /\ Len(fleet.cleanupCallbacks) = N
        /\ \A k \in 1..N : fleet.cleanupCallbacks[k] = k
C18_ExactlyOneTransportAndClientPerServer ==
    /\ started = N => \A i \in Servers : HasTransport(i) /\ HasClient(i)
    /\ NothingShared
    /\ CleanupsInConfigOrder

\* C18 (amended): every server whose connector has started has at most one
\* transport and at most one client, exactly one of each unless a constructor
\* threw (then the connector fails having made no request, with a transport
\* and no client, or with neither), and in particular exactly one of each in a
\* resolved fleet; a server not yet started has none; no transport or client
\* is shared; a resolved fleet has one cleanup per server, in configuration order.
ConstructorThrew(i) ==
    /\ conn[i].pc \in {"closing", "rejected"}
    /\ conn[i].connectCalls = 0
    /\ ~HasClient(i) /\ conn[i].clientId = NullObject
    /\ ~HasTransport(i) => conn[i].transportId = NullObject
C18_OneTransportAndClientUnlessConstructorThrows ==
    /\ \A i \in Servers :
          /\ i > started => ~HasTransport(i) /\ ~HasClient(i)
          /\ i <= started => (HasTransport(i) /\ HasClient(i)) \/ ConstructorThrew(i)
          /\ (conn[i].transport = "null") = (conn[i].transportId = NullObject)
          /\ (conn[i].client = "null") = (conn[i].clientId = NullObject)
    /\ fleet.pc = "resolved" => \A i \in Servers : HasTransport(i) /\ HasClient(i)
    /\ NothingShared
    /\ CleanupsInConfigOrder
\* A resolved fleet of two servers, each with a transport and a client of its
\* own and its cleanup at its place.
C18_Witness ==
    /\ N = 2
    /\ fleet.pc = "resolved"
    /\ \A i \in Servers : HasTransport(i) /\ HasClient(i)
    /\ conn[1].transportId # conn[2].transportId
    /\ conn[1].clientId # conn[2].clientId
    /\ fleet.cleanupCallbacks = <<1, 2>>


\* C19: a connector whose tool wrapping fails (connect and tools/list having
\* succeeded) calls close on its connected transport, awaits it, and then
\* fails with the McpInitializationError of its server carrying the schema
\* error; and no connector at all has failed with a transport on which close
\* was not called and awaited.
WrapFailedServers == {i \in Servers : conn[i].cause \in SchemaErrors}
C19_WrapFailureClosesTransport ==
    /\ SchemaErrors \cap InitCauses = {}
    /\ \A i \in WrapFailedServers :
          /\ conn[i].pc \in {"closing", "rejected"}
          /\ conn[i].connectCalls = 1 /\ conn[i].listCalls = 1
          /\ conn[i].transport = "open"
          /\ conn[i].closeCalls = 1
          /\ conn[i].tools = <<>>
          /\ conn[i].pc = "rejected" =>
                /\ conn[i].closeSettled = 1
                /\ conn[i].reason = McpInitializationError(serverNames[i],
                                        InitErrorMessage(conn[i].cause), conn[i].cause)
    /\ \A i \in FailedServers :
          conn[i].transport = "open" => conn[i].closeCalls = 1 /\ conn[i].closeSettled = 1
\* A connector has failed on wrapping its tools, its transport closed.
C19_Witness ==
    \E i \in WrapFailedServers :
        /\ conn[i].pc = "rejected"
        /\ conn[i].listCalls = 1
        /\ conn[i].closeSettled = 1
        /\ conn[i].reason.details \in SchemaErrors


\* C20: the tools/call request of a tool of the aggregate collection carries
\* the tool's declared name and the caller's arguments and is made on the
\* client of the server that declared the tool, a client no other server has,
\* and it is the only request of the call; also when both servers declare a
\* tool of the same name and whatever the order the connectors completed in.
DeclaredBy(k) == DeclaredUpTo(N)[k]
C20_CallGoesToDeclaringServer ==
    call.pc # "idle" =>
        /\ call.tool \in 1..Len(DeclaredUpTo(N))
        /\ Len(call.requests) = 1
        /\ call.requests[1].method = "tools/call"
        /\ call.requests[1].server = DeclaredBy(call.tool).server
        /\ call.requests[1].name = DeclaredBy(call.tool).name
        /\ call.requests[1].arguments = call.input
        /\ \A j \in Servers \ {call.requests[1].server} :
              conn[j].clientId # conn[call.requests[1].server].clientId
\* Both servers declare a tool of the same name, the second server completed
\* first, and the second server's tool is called.
C20_Witness ==
    /\ call.pc = "pending"
    /\ settleOrder = <<2, 1>>
    /\ DeclaredBy(call.tool).server = 2
    /\ \E j \in 1..Len(conn[1].declared) :
          conn[1].declared[j].name = DeclaredBy(call.tool).name
    /\ call.requests[1].server = 2


\* C21: every external operation that was started settling in the end,
\* convertMcpToLangchainTools settles, resolving with { tools, cleanup } or
\* rejecting with an McpInitializationError, and a composite cleanup that was
\* called resolves; nothing is retried: a connector makes at most one connect,
\* one tools/list and one close on its error path.
FleetOutcomeIsValueOrInitError ==
    /\ fleet.pc = "resolved" => fleet.value.defined /\ fleet.reason = NoError
    /\ fleet.pc = "rejected" =>
          fleet.value = NoValue /\ fleet.reason.name = "McpInitializationError"
NothingRetried ==
    \A i \in Servers :
        /\ conn[i].connectCalls <= 1
        /\ conn[i].listCalls <= 1
        /\ conn[i].listCalls <= conn[i].connectCalls
        /\ conn[i].pc \in {"closing", "rejected"} => conn[i].closeCalls <= 1
C21_SettlesWhenOperationsSettle ==
    /\ [](NothingRetried /\ FleetOutcomeIsValueOrInitError)
    /\ <>FleetSettled
    /\ (cleanupRun.pc = "running") ~> (cleanupRun.pc = "resolved")
\* A failed fleet at its end: one connector failed at its handshake and one at
\* tools/list, each after one attempt and one close.
C21_Witness ==
    /\ fleet.pc = "rejected"
    /\ \E i \in Servers :
          conn[i].connectCalls = 1 /\ conn[i].listCalls = 0 /\ conn[i].closeSettled = 1
    /\ \E i \in Servers :
          conn[i].connectCalls = 1 /\ conn[i].listCalls = 1 /\ conn[i].closeSettled = 1


\* C22: a connector keeps no closed state.  After a cleanup has completed the
\* connectors still hold their transport and client; every tool can still be
\* invoked, and an invocation made then issues its one tools/call request on
\* the client of the tool's connector; cleanup can be called again, and each
\* call of it calls close on every transport once more.
HandlesKept ==
    \A i \in Servers :
        conn[i].closeSettled > 0 /\ conn[i].pc = "fulfilled" =>
            /\ conn[i].transport = "open" /\ conn[i].transportId # NullObject
            /\ conn[i].client = "created" /\ conn[i].clientId # NullObject
EveryCallClosesEveryTransport ==
    \A i \in Servers :
        /\ cleanupRun.calls > 0 => conn[i].closeCalls = cleanupRun.calls
        /\ cleanupRun.pc = "resolved" => conn[i].closeSettled = cleanupRun.calls
NothingGuardedAfterCleanup ==
    cleanupRun.pc = "resolved" =>
        /\ cleanupRun.calls < MaxCleanupCalls => ENABLED CallCleanupAgain
        /\ call.pc # "pending" =>
              \A k \in 1..Len(fleet.value.tools) : \A input \in Inputs :
                  ENABLED InvokeTool(k, input)
InvokedAfterCleanup ==
    /\ cleanupRun.pc = "resolved"
    /\ call.pc # "pending"
    /\ call'.pc = "pending"
RequestOnOwnClient ==
    /\ Len(call'.requests) = 1
    /\ call'.requests[1].method = "tools/call"
    /\ call'.requests[1].server = fleet.value.tools[call'.tool].server
    /\ conn[call'.requests[1].server].client = "created"
    /\ conn[call'.requests[1].server].closeSettled > 0
C22_NoClosedState ==
    /\ [](HandlesKept /\ EveryCallClosesEveryTransport /\ NothingGuardedAfterCleanup)
    /\ [][InvokedAfterCleanup => RequestOnOwnClient]_vars
\* The second cleanup of a fleet of two servers has completed, every transport
\* closed twice, and a tool's request is under way.
C22_Witness ==
    /\ cleanupRun.pc = "resolved"
    /\ cleanupRun.calls = 2
    /\ \A i \in Servers : conn[i].closeCalls = 2 /\ conn[i].closeSettled = 2
    /\ call.pc = "pending"
    /\ Len(call.requests) = 1

====
